---- MODULE Spec2Model ----
(***************************************************************************)
(* A model of main.py of NTRT-Scanner-US: the two earnings-calendar        *)
(* adapters (Yahoo scraping, Finnhub JSON), the coordinator that falls     *)
(* back from one to the other, the yfinance filter loop, the ranking step  *)
(* and the Discord push.                                                   *)
(*                                                                         *)
(* External calls (HTTP requests, HTML/JSON parsing, yfinance lookups,     *)
(* environment variables) are inputs: each action draws the outcome of the *)
(* calls it makes from a small set with \E.                                *)
(*                                                                         *)
(* Units.  revenueGrowth is counted in 1/10000 (0.39 is 3900, 0.3901 is    *)
(* 3901); marketCap in millions of dollars (the ceiling 10000000000 is     *)
(* 10000); averageVolume in shares.  'YoY(%)' is counted in tenths of a    *)
(* percent, 'MarketCap(B)' in hundredths of a billion, 'AvgVol(K)' in      *)
(* tenths of a thousand shares.                                            *)
(***************************************************************************)
EXTENDS Integers, Sequences, FiniteSets, TLC

\* ------------------------------------------------------------------ bounds
\* Most rows a calendar response (HTML table, JSON collection) carries.
MaxRows == 2
\* Most candidate records handed to the ranking step in SpecRank.
MaxCand == 12

\* ------------------------------------------------------- program constants
\* dates_to_fetch = [start_date, end_date]
NumDates == 2
\* rev_growth < 0.39, in 1/10000
GrowthThreshold == 3900
\* max_cap=10000000000, in millions of dollars
max_cap == 10000
\* max_vol=1500000, in shares
max_vol == 1500000
\* .head(10)
TopN == 10

\* ------------------------------------------------------------- symbols
\* A ticker symbol is a sequence of characters.
DottedSymbols == { <<"A", ".", "B">>, <<"B", ".">> }
PlainSymbols == { <<"A">>, <<"B">>, <<"C">> }
Symbols == PlainSymbols \cup DottedSymbols

\* Sequences over S of length at most n.
SeqsUpTo(S, n) == UNION { [1..k -> S] : k \in 0..n }

Range(s) == { s[i] : i \in 1..Len(s) }

\* str.contains(r'\.'): the pattern is searched anywhere in the symbol.
HasDot(sym) == \E i \in 1..Len(sym) : sym[i] = "."

NoDot(sym) == ~HasDot(sym)

\* Series.unique(): first occurrences, in order of appearance.
RECURSIVE Unique(_)
Unique(s) ==
    IF s = <<>> THEN <<>>
    ELSE LET front == Unique(SubSeq(s, 1, Len(s) - 1))
             last == s[Len(s)]
         IN IF last \in Range(front) THEN front ELSE Append(front, last)

\* Mutant of FilterSymbols: the rows with a "." are not dropped.
FilterSymbolsKeepDots(rows) == Unique(rows)

\* df[~df[col].str.contains(r'\.', na=False)][col].unique().tolist()
FilterSymbols(rows) == Unique(SelectSeq(rows, NoDot))

\* list(tickers) of a set: every element once, in the set's iteration order,
\* which the hash seed of the run decides.
ListsOfSet(S) ==
    { l \in [1..Cardinality(S) -> S] : Range(l) = S }

\* ------------------------------------------------- values a call returns
ListVal(l) == [kind |-> "list", list |-> l]
NoneVal == [kind |-> "none", list |-> <<>>]
RaiseVal == [kind |-> "raise", list |-> <<>>]

\* Python truthiness of a returned value: None and [] are falsy.
Truthy(v) == v.kind = "list" /\ v.list # <<>>

\* ---------------------------------------------------------------- state
VARIABLES
    pc,            \* where the run is
    calls,         \* the adapters called so far, in order
    ylog,          \* Yahoo adapter: requests issued and sleeps taken, in order
    yresp,         \* Yahoo adapter: the response received for each date so far
    dateIdx,       \* Yahoo adapter: position in dates_to_fetch
    ytickers,      \* Yahoo adapter: its local set tickers
    yahooResult,   \* what get_earnings_tickers_yahoo returned
    fresp,         \* Finnhub adapter: api key presence and response received
    finnhubResult, \* what get_earnings_tickers_finnhub returned
    tickers,       \* tickers of get_earnings_tickers and of the main block
    idx,           \* filter loop: position in tickers
    infos,         \* filter loop: the stock.info drawn for each ticker so far
    flog,          \* filter loop: lookups made and sleeps taken, in order
    ep_list,       \* filter loop: records appended (df_ep before sorting)
    shortlist,     \* df_ep after sort_values(...).head(10)
    sent,          \* contents handed to send_to_discord
    sink,          \* contents posted to the webhook
    console        \* the main block's "no data" console line was printed

vars == << pc, calls, ylog, yresp, dateIdx, ytickers, yahooResult, fresp,
           finnhubResult, tickers, idx, infos, flog, ep_list, shortlist,
           sent, sink, console >>

acqVars == << calls, ylog, yresp, dateIdx, ytickers, yahooResult, fresp,
              finnhubResult >>
filterVars == << idx, infos, flog >>
outVars == << sent, sink, console >>

\* ------------------------------------------------------- Yahoo adapter
\* What session.get(calendar url) and pd.read_html can give for one date.
\*   raise   session.get raised (timeout, connection error)
\*   status  res.status_code
\*   marker  "ApacheTrafficServer" in res.text
\*   parse   "ValueError": read_html found no table;
\*           "nocolumn": the first table has no 'Symbol' column;
\*           "badcolumn": the 'Symbol' column is not of strings, .str raises;
\*           "table": the first table has a 'Symbol' column holding rows
YahooFailed(raise, status, marker, parse) ==
    [raise |-> raise, status |-> status, marker |-> marker, parse |-> parse,
     rows |-> <<>>]

YahooResponses ==
    { YahooFailed(TRUE, 0, FALSE, "none") }
    \cup { YahooFailed(FALSE, 403, FALSE, "none"),
           YahooFailed(FALSE, 200, TRUE, "none"),
           YahooFailed(FALSE, 403, TRUE, "none") }
    \cup { YahooFailed(FALSE, 200, FALSE, p) :
             p \in {"ValueError", "nocolumn", "badcolumn"} }
    \cup { [raise |-> FALSE, status |-> 200, marker |-> FALSE,
            parse |-> "table", rows |-> r] : r \in SeqsUpTo(Symbols, MaxRows) }

\* The server refused: the block-page marker or a status other than 200.
Blocked(resp) == resp.marker \/ resp.status # 200

\* The response was parsed into a table with a usable 'Symbol' column.
Parsed(resp) == ~resp.raise /\ ~Blocked(resp) /\ resp.parse = "table"

\* One iteration of `for date_str in dates_to_fetch`: the symbols added to
\* tickers and whether time.sleep(2.5) at the end of the body is reached.
\* `continue` in the blocked branch leaves the body before the sleep; the
\* two except clauses fall through to it.
YahooDate(resp) ==
    IF resp.raise THEN [add |-> {}, cooldown |-> TRUE]
    ELSE IF Blocked(resp) THEN [add |-> {}, cooldown |-> FALSE]
    ELSE IF resp.parse = "table"
         THEN [add |-> Range(FilterSymbols(resp.rows)), cooldown |-> TRUE]
    ELSE [add |-> {}, cooldown |-> TRUE]

\* session.get("https://finance.yahoo.com/"); time.sleep(1.5).  An exception
\* of the warm-up is caught by the outer except, past the whole loop.
YahooWarmup ==
    /\ pc = "yahoo_warmup"
    /\ calls' = Append(calls, "yahoo")
    /\ \E ok \in BOOLEAN :
         IF ok THEN /\ ylog' = <<"warmup", "sleep">>
                    /\ pc' = "yahoo_loop"
               ELSE /\ ylog' = <<"warmup">>
                    /\ pc' = "yahoo_return"
    /\ dateIdx' = 1
    /\ UNCHANGED << yresp, ytickers, yahooResult, fresp, finnhubResult,
                    tickers, filterVars, ep_list, shortlist, outVars >>

\* Mutant of YahooFetchDate: a date that fails ends the loop over the dates.
YahooFetchDateAbort ==
    /\ pc = "yahoo_loop"
    /\ dateIdx <= NumDates
    /\ \E resp \in YahooResponses :
         LET step == YahooDate(resp)
         IN /\ ytickers' = ytickers \cup step.add
            /\ ylog' = ylog \o (IF step.cooldown THEN <<"get", "cooldown">>
                                                 ELSE <<"get">>)
            /\ yresp' = Append(yresp, resp)
            /\ pc' = IF dateIdx = NumDates \/ ~Parsed(resp)
                     THEN "yahoo_return" ELSE "yahoo_loop"
    /\ dateIdx' = dateIdx + 1
    /\ UNCHANGED << calls, yahooResult, fresp, finnhubResult, tickers,
                    filterVars, ep_list, shortlist, outVars >>

YahooFetchDate ==
    /\ pc = "yahoo_loop"
    /\ dateIdx <= NumDates
    /\ \E resp \in YahooResponses :
         LET step == YahooDate(resp)
         IN /\ ytickers' = ytickers \cup step.add
            /\ ylog' = ylog \o (IF step.cooldown THEN <<"get", "cooldown">>
                                                 ELSE <<"get">>)
            /\ yresp' = Append(yresp, resp)
    /\ dateIdx' = dateIdx + 1
    /\ pc' = IF dateIdx = NumDates THEN "yahoo_return" ELSE "yahoo_loop"
    /\ UNCHANGED << calls, yahooResult, fresp, finnhubResult, tickers,
                    filterVars, ep_list, shortlist, outVars >>

\* if tickers: return list(tickers) ... return None
YahooReturn ==
    /\ pc = "yahoo_return"
    /\ IF ytickers # {}
       THEN \E l \in ListsOfSet(ytickers) : yahooResult' = ListVal(l)
       ELSE yahooResult' = NoneVal
    /\ pc' = "coord"
    /\ UNCHANGED << calls, ylog, yresp, dateIdx, ytickers, fresp,
                    finnhubResult, tickers, filterVars, ep_list, shortlist,
                    outVars >>

\* ----------------------------------------------------- Finnhub adapter
\*   raise   requests.get raised
\*   status  res.status_code
\*   json    "invalid": res.json() raises; "null": the body is not an object
\*           and `in` raises; "nokey": no 'earningsCalendar'; "nosymbol":
\*           the entries have no 'symbol' field; "ok": rows of symbols
FinnhubFailed(raise, status, json) ==
    [raise |-> raise, status |-> status, json |-> json, rows |-> <<>>]

FinnhubResponses ==
    { FinnhubFailed(TRUE, 0, "none"), FinnhubFailed(FALSE, 403, "none") }
    \cup { FinnhubFailed(FALSE, 200, j) :
             j \in {"invalid", "null", "nokey", "nosymbol"} }
    \cup { [raise |-> FALSE, status |-> 200, json |-> "ok", rows |-> r] :
             r \in SeqsUpTo(Symbols, MaxRows) }

\* The try block of get_earnings_tickers_finnhub.
FinnhubTry(resp) ==
    IF resp.raise THEN RaiseVal
    ELSE IF resp.status # 200 THEN ListVal(<<>>)
    ELSE IF resp.json \in {"invalid", "null"} THEN RaiseVal
    ELSE IF resp.json = "ok" /\ resp.rows # <<>>
         THEN ListVal(FilterSymbols(resp.rows))
    ELSE ListVal(<<>>)

\* Mutant of FinnhubExcept: the exception is not caught.
FinnhubNoExcept(v) == v

\* except Exception: ... return []
FinnhubExcept(v) == IF v.kind = "raise" THEN ListVal(<<>>) ELSE v

get_earnings_tickers_finnhub(api_key, resp) ==
    IF ~api_key THEN ListVal(<<>>) ELSE FinnhubExcept(FinnhubTry(resp))

\* --------------------------------------------------------- coordinator
\* Mutant of FallBack: the second adapter is called whatever the first gave.
FallBackAlways(v) == TRUE

\* `if not tickers:` after the Yahoo call.
FallBack(v) == ~Truthy(v)

CoordAfterYahoo ==
    /\ pc = "coord"
    /\ IF yahooResult.kind = "raise"
       THEN /\ pc' = "crashed"
            /\ UNCHANGED tickers
       ELSE IF FallBack(yahooResult)
       THEN /\ pc' = "finnhub"
            /\ UNCHANGED tickers
       ELSE /\ pc' = "acquired"
            /\ tickers' = yahooResult.list
    /\ UNCHANGED << acqVars, filterVars, ep_list, shortlist, outVars >>

Finnhub ==
    /\ pc = "finnhub"
    /\ calls' = Append(calls, "finnhub")
    /\ \E api_key \in BOOLEAN, resp \in FinnhubResponses :
         LET v == get_earnings_tickers_finnhub(api_key, resp)
         IN /\ fresp' = << [key |-> api_key, resp |-> resp] >>
            /\ finnhubResult' = v
            /\ IF v.kind = "raise"
               THEN /\ pc' = "crashed"
                    /\ UNCHANGED tickers
               ELSE /\ pc' = "acquired"
                    /\ tickers' = v.list
    /\ UNCHANGED << ylog, yresp, dateIdx, ytickers, yahooResult, filterVars,
                    ep_list, shortlist, outVars >>

\* -------------------------------------------------------- filter loop
\* A field of stock.info: absent (info.get gives None) or a number.
Num(n) == [none |-> FALSE, v |-> n]
Absent == [none |-> TRUE, v |-> 0]

\* What yf.Ticker(ticker).info can give.
\*   raises  "fetch": stock.info raises; "growth": revenueGrowth is not a
\*           number and the comparison raises; "none": nothing raises
InfoOk(g, c, v) == [raises |-> "none", growth |-> g, cap |-> c, vol |-> v]

Infos ==
    { [raises |-> r, growth |-> Absent, cap |-> Absent, vol |-> Absent] :
        r \in {"fetch", "growth"} }
    \cup { InfoOk(g, c, v) :
             g \in {Absent} \cup { Num(n) : n \in {3800, GrowthThreshold,
                                                   GrowthThreshold + 1, 5000} },
             c \in {Absent, Num(max_cap), Num(max_cap + 1)},
             v \in {Absent, Num(max_vol), Num(max_vol + 1)} }

\* round(n / d): to the nearest integer.  No value of the model is an exact
\* half, where Python rounds the binary float to even.
RoundDiv(n, d) == (2 * n + d) \div (2 * d)

\* The dictionary appended to ep_list (the display name is left out).
Record(ticker, info) ==
    [Ticker |-> ticker,
     YoY |-> RoundDiv(info.growth.v, 10),
     MarketCapB |-> RoundDiv(info.cap.v, 10),
     AvgVolK |-> RoundDiv(info.vol.v, 100)]

\* rev_growth is None or rev_growth < 0.39
GrowthRejected(g) == g.none \/ g.v < GrowthThreshold

\* market_cap is None or market_cap > max_cap
CapRejected(c) == c.none \/ c.v > max_cap

\* vol is None or vol > max_vol
VolRejected(v) == v.none \/ v.v > max_vol

\* One iteration of `for ticker in tickers`: the records appended and
\* whether time.sleep(0.2) at the end of the body is reached.  Each
\* `continue` leaves the body before the sleep; `except Exception: pass`
\* falls through to it.
Evaluate(ticker, info) ==
    IF info.raises # "none" THEN [append |-> <<>>, delay |-> TRUE]
    ELSE IF GrowthRejected(info.growth) THEN [append |-> <<>>, delay |-> FALSE]
    ELSE IF CapRejected(info.cap) THEN [append |-> <<>>, delay |-> FALSE]
    ELSE IF VolRejected(info.vol) THEN [append |-> <<>>, delay |-> FALSE]
    ELSE [append |-> << Record(ticker, info) >>, delay |-> TRUE]

\* `if tickers:` of the main block.  The adapters' and the coordinator's
\* locals are gone once get_earnings_tickers has returned.
MainBranch ==
    /\ pc = "acquired"
    /\ IF tickers # <<>>
       THEN /\ pc' = "filter"
            /\ UNCHANGED console
       ELSE /\ pc' = "done"
            /\ console' = TRUE
    /\ calls' = <<>>
    /\ ylog' = <<>>
    /\ yresp' = <<>>
    /\ dateIdx' = 0
    /\ ytickers' = {}
    /\ yahooResult' = NoneVal
    /\ fresp' = <<>>
    /\ finnhubResult' = NoneVal
    /\ idx' = 1
    /\ UNCHANGED << tickers, infos, flog, ep_list, shortlist, sent, sink >>

\* Mutant of FilterTicker: a ticker that raises ends the loop.
FilterTickerAbort ==
    /\ pc = "filter"
    /\ idx <= Len(tickers)
    /\ \E info \in Infos :
         LET step == Evaluate(tickers[idx], info)
         IN /\ ep_list' = ep_list \o step.append
            /\ flog' = flog \o (IF step.delay THEN <<"lookup", "delay">>
                                              ELSE <<"lookup">>)
            /\ infos' = Append(infos, info)
            /\ pc' = IF info.raises # "none" THEN "filtered" ELSE "filter"
    /\ idx' = idx + 1
    /\ UNCHANGED << acqVars, tickers, shortlist, outVars >>

FilterTicker ==
    /\ pc = "filter"
    /\ idx <= Len(tickers)
    /\ \E info \in Infos :
         LET step == Evaluate(tickers[idx], info)
         IN /\ ep_list' = ep_list \o step.append
            /\ flog' = flog \o (IF step.delay THEN <<"lookup", "delay">>
                                              ELSE <<"lookup">>)
            /\ infos' = Append(infos, info)
    /\ idx' = idx + 1
    /\ UNCHANGED << pc, acqVars, tickers, shortlist, outVars >>

\* return pd.DataFrame(ep_list)
FilterReturn ==
    /\ pc = "filter"
    /\ idx > Len(tickers)
    /\ pc' = "filtered"
    /\ UNCHANGED << acqVars, tickers, filterVars, ep_list, shortlist,
                    outVars >>

\* `if not df_ep.empty:` of the main block.  The filter's locals are gone.
MainAfterFilter ==
    /\ pc = "filtered"
    /\ pc' = IF ep_list # <<>> THEN "rank" ELSE "send_none"
    /\ idx' = 0
    /\ infos' = <<>>
    /\ flog' = <<>>
    /\ UNCHANGED << acqVars, tickers, ep_list, shortlist, outVars >>

\* ------------------------------------------------------------- ranking
Min(a, b) == IF a <= b THEN a ELSE b

\* The orders of the rows S of df in which 'YoY(%)' never increases.
\* sort_values sorts with kind='quicksort', which is not stable: which of
\* these orders comes out when rows tie is up to the numpy build.
RECURSIVE DescOrders(_, _)
DescOrders(df, S) ==
    IF S = {} THEN { <<>> }
    ELSE UNION { { <<i>> \o t : t \in DescOrders(df, S \ {i}) } :
                 i \in { j \in S : \A k \in S : df[k].YoY <= df[j].YoY } }

\* df.sort_values(by='YoY(%)', ascending=False): every outcome.
sort_values(df) ==
    { [i \in 1..Len(df) |-> df[o[i]]] : o \in DescOrders(df, 1..Len(df)) }

\* Mutant of head: the frame is not cut.
headAll(df, n) == df

\* df.head(n)
head(df, n) == SubSeq(df, 1, Min(n, Len(df)))

Rank ==
    /\ pc = "rank"
    /\ \E sorted \in sort_values(ep_list) : shortlist' = head(sorted, TopN)
    /\ pc' = "send_ranked"
    /\ UNCHANGED << acqVars, tickers, filterVars, ep_list, outVars >>

\* ------------------------------------------------------------- sending
\* The two contents the main block builds: the prompt listing the shortlist
\* and the line saying that nothing met the thresholds.
\* Mutant of NoneMsg: the prompt is built, with no rows, when nothing passed.
EmptyRankedMsg == [variant |-> "ranked", rows |-> <<>>, cut |-> FALSE]

RankedMsg(rows) == [variant |-> "ranked", rows |-> rows, cut |-> FALSE]
NoneMsg == [variant |-> "none", rows |-> <<>>, cut |-> FALSE]

\* content[:1950] + suffix
Truncate(content) == [content EXCEPT !.cut = TRUE]

\* send_to_discord(content).
\*   webhook  DISCORD_WEBHOOK_URL is set
\*   long     len(content) > 1950
\*   postOk   requests.post returned (it is not in a try block)
SendTo(content, webhook, long, postOk) ==
    /\ sent' = Append(sent, content)
    /\ IF ~webhook
       THEN /\ pc' = "done"
            /\ UNCHANGED sink
       ELSE IF postOk
       THEN /\ pc' = "done"
            /\ sink' = Append(sink, IF long THEN Truncate(content) ELSE content)
       ELSE /\ pc' = "crashed"
            /\ UNCHANGED sink
    /\ UNCHANGED << acqVars, tickers, filterVars, ep_list, shortlist, console >>

\* The length of the ranked content depends on the names listed.
SendRanked ==
    /\ pc = "send_ranked"
    /\ \E webhook \in BOOLEAN, long \in BOOLEAN, postOk \in BOOLEAN :
         SendTo(RankedMsg(shortlist), webhook, long, postOk)

\* The "none" content is a fixed line of under 1950 characters.
SendNone ==
    /\ pc = "send_none"
    /\ \E webhook \in BOOLEAN, postOk \in BOOLEAN :
         SendTo(NoneMsg, webhook, FALSE, postOk)

\* ------------------------------------------------------ specifications
Init ==
    /\ pc = "yahoo_warmup"
    /\ calls = <<>>
    /\ ylog = <<>>
    /\ yresp = <<>>
    /\ dateIdx = 0
    /\ ytickers = {}
    /\ yahooResult = NoneVal
    /\ fresp = <<>>
    /\ finnhubResult = NoneVal
    /\ tickers = <<>>
    /\ idx = 0
    /\ infos = <<>>
    /\ flog = <<>>
    /\ ep_list = <<>>
    /\ shortlist = <<>>
    /\ sent = <<>>
    /\ sink = <<>>
    /\ console = FALSE

Next ==
    \/ YahooWarmup
    \/ YahooFetchDate
    \/ YahooReturn
    \/ CoordAfterYahoo
    \/ Finnhub
    \/ MainBranch
    \/ FilterTicker
    \/ FilterReturn
    \/ MainAfterFilter
    \/ Rank
    \/ SendRanked
    \/ SendNone

Spec == Init /\ [][Next]_vars

\* The ranking step on its own, on longer candidate lists than the few
\* symbols of Spec give: the filter returned n records whose 'YoY(%)' rise
\* or fall along the list, except that the rows of `tied` share one value.
DigitChars == << "0", "1", "2", "3", "4", "5", "6", "7", "8", "9" >>

RankTicker(i) == << "T", DigitChars[(i \div 10) + 1], DigitChars[(i % 10) + 1] >>

RankInput(n, rising, tied, high) ==
    [i \in 1..n |->
       [Ticker |-> RankTicker(i),
        YoY |-> IF i \in tied THEN (IF high THEN 995 ELSE 395)
                ELSE IF rising THEN 400 + 10 * i ELSE 400 + 10 * (n - i),
        MarketCapB |-> 100,
        AvgVolK |-> 5000]]

RankInputs ==
    { RankInput(n, rising, tied, high) :
        n \in 1..MaxCand, rising \in BOOLEAN, high \in BOOLEAN,
        tied \in { T \in SUBSET (1..MaxCand) : Cardinality(T) \in {0, 2, 3} } }

InitRank ==
    /\ pc = "rank"
    /\ calls = <<>>
    /\ ylog = <<>>
    /\ yresp = <<>>
    /\ dateIdx = 0
    /\ ytickers = {}
    /\ yahooResult = NoneVal
    /\ fresp = <<>>
    /\ finnhubResult = NoneVal
    /\ ep_list \in RankInputs
    /\ tickers = [i \in 1..Len(ep_list) |-> ep_list[i].Ticker]
    /\ idx = 0
    /\ infos = <<>>
    /\ flog = <<>>
    /\ shortlist = <<>>
    /\ sent = <<>>
    /\ sink = <<>>
    /\ console = FALSE

NextRank ==
    \/ Rank
    \/ SendRanked

SpecRank == InitRank /\ [][NextRank]_vars

\* ================================================================ claims
ContainsDot(sym) == "." \in Range(sym)

NoRepeat(l) == \A i, j \in 1..Len(l) : l[i] = l[j] => i = j

Normalized(l) == NoRepeat(l) /\ \A i \in 1..Len(l) : ~ContainsDot(l[i])

NonEmptyList(v) == v.kind = "list" /\ Len(v.list) > 0

FinnhubCalled == "finnhub" \in Range(calls)

\* C1: the Yahoo adapter is consulted first; the Finnhub adapter is called
\* if and only if the Yahoo adapter returned None or nothing; what
\* get_earnings_tickers returns is the result of the first adapter that gave
\* a non-empty collection, and is empty when none did.
C1_OrderedFallback ==
    /\ pc \in {"coord", "finnhub", "acquired"} => calls[1] = "yahoo"
    /\ pc = "finnhub" => ~NonEmptyList(yahooResult)
    /\ pc = "acquired" =>
         /\ calls \in { <<"yahoo">>, <<"yahoo", "finnhub">> }
         /\ FinnhubCalled <=> ~NonEmptyList(yahooResult)
         /\ tickers = IF NonEmptyList(yahooResult) THEN yahooResult.list
                      ELSE IF NonEmptyList(finnhubResult)
                           THEN finnhubResult.list
                      ELSE <<>>

\* C1 witness: Yahoo returned None and the Finnhub result was returned.
C1_Witness ==
    /\ pc = "acquired"
    /\ yahooResult.kind = "none"
    /\ calls = <<"yahoo", "finnhub">>
    /\ tickers # <<>>
    /\ tickers = finnhubResult.list

\* The warm-up request of the Yahoo adapter raised.
WarmupRaised == ylog = <<"warmup">>

\* Some calendar response of the Yahoo adapter carried a usable symbol.
YahooDelivered ==
    \E d \in 1..Len(yresp) :
        /\ ~yresp[d].raise
        /\ yresp[d].status = 200
        /\ ~yresp[d].marker
        /\ yresp[d].parse = "table"
        /\ \E i \in 1..Len(yresp[d].rows) : ~ContainsDot(yresp[d].rows[i])

\* The Finnhub request was made and its response carried a usable symbol.
FinnhubDelivered ==
    /\ fresp # <<>>
    /\ fresp[1].key
    /\ ~fresp[1].resp.raise
    /\ fresp[1].resp.status = 200
    /\ fresp[1].resp.json = "ok"
    /\ \E i \in 1..Len(fresp[1].resp.rows) : ~ContainsDot(fresp[1].resp.rows[i])

\* C2: get_earnings_tickers never raises: whatever the outcomes of the
\* external calls (success, refusal, malformed payload, exception), no
\* exception leaves it, it falls back to Finnhub when Yahoo delivered
\* nothing, and it returns an empty list when neither delivered.
C2_NeverRaises ==
    /\ pc = "crashed" => sent # <<>>
    /\ pc \in {"coord", "finnhub", "acquired"} => yahooResult.kind # "raise"
    /\ pc = "acquired" =>
         /\ finnhubResult.kind # "raise"
         /\ ~YahooDelivered => FinnhubCalled
         /\ (~YahooDelivered /\ ~FinnhubDelivered) => tickers = <<>>

\* C2 witness: the warm-up raised, the Finnhub request raised, and the
\* coordinator returned the empty list.
C2_Witness ==
    /\ pc = "acquired"
    /\ WarmupRaised
    /\ FinnhubCalled
    /\ fresp[1].key
    /\ fresp[1].resp.raise
    /\ tickers = <<>>

EpTickers == { ep_list[i].Ticker : i \in 1..Len(ep_list) }

WithinCeilings(info) ==
    /\ ~info.cap.none /\ info.cap.v <= max_cap
    /\ ~info.vol.none /\ info.vol.v <= max_vol

\* C3: the growth test is strict: a ticker whose growth is exactly 0.39 is
\* excluded, one whose growth is 0.3901 is included, when market cap and
\* volume are present and within their ceilings.
C3_StrictGrowth ==
    \A i \in 1..Len(infos) :
        (infos[i].raises = "none" /\ WithinCeilings(infos[i])) =>
            /\ infos[i].growth = Num(3900) => tickers[i] \notin EpTickers
            /\ infos[i].growth = Num(3901) => tickers[i] \in EpTickers

\* C4: every ticker lookup is followed by exactly one delay, whatever its
\* outcome, so the delays are as many as the tickers processed.
C4_DelayAfterEveryLookup ==
    /\ Len(flog) = 2 * Len(infos)
    /\ \A i \in 1..Len(flog) :
         flog[i] = (IF i % 2 = 1 THEN "lookup" ELSE "delay")

\* The positions from k on whose info raises nothing, in rising order.
RECURSIVE NotRaisingFrom(_, _)
NotRaisingFrom(infs, k) ==
    IF k > Len(infs) THEN <<>>
    ELSE (IF infs[k].raises = "none" THEN <<k>> ELSE <<>>)
         \o NotRaisingFrom(infs, k + 1)

\* The records the filter appends for tks with their infos, none raising.
RECURSIVE FilterOf(_, _)
FilterOf(tks, infs) ==
    IF tks = <<>> THEN <<>>
    ELSE Evaluate(Head(tks), Head(infs)).append \o FilterOf(Tail(tks), Tail(infs))

\* C5: a ticker whose lookup or evaluation raises is alone excluded: the
\* batch goes on, every later ticker is looked up, and the records of the
\* others are those of the input without the failing tickers.
C5_FailureIsolated ==
    /\ pc = "crashed" => infos = <<>>
    /\ pc = "filter" => Len(infos) = idx - 1
    /\ pc = "filtered" => Len(infos) = Len(tickers)
    /\ pc \in {"filter", "filtered"} =>
         LET NotRaising(i) == infos[i].raises = "none"
             kept == NotRaisingFrom(infos, 1)
         IN /\ \A i \in 1..Len(infos) :
                  ~NotRaising(i) => tickers[i] \notin EpTickers
            /\ ep_list = FilterOf([k \in 1..Len(kept) |-> tickers[kept[k]]],
                                  [k \in 1..Len(kept) |-> infos[kept[k]]])

\* C5 witness: the second of three tickers raised, the first and the third
\* were looked up and both passed.
C5_Witness ==
    /\ pc = "filtered"
    /\ Len(tickers) = 3
    /\ infos[2].raises # "none"
    /\ Len(ep_list) = 2
    /\ ep_list[1].Ticker = tickers[1]
    /\ ep_list[2].Ticker = tickers[3]

\* The rows in the order a stable descending sort gives them: rows of equal
\* 'YoY(%)' in their input order.
RECURSIVE StableOrder(_, _)
StableOrder(df, S) ==
    IF S = {} THEN <<>>
    ELSE LET best == CHOOSE j \in S :
                       \A k \in S : \/ df[k].YoY < df[j].YoY
                                    \/ df[k].YoY = df[j].YoY /\ j <= k
         IN << df[best] >> \o StableOrder(df, S \ {best})

Descending(df) ==
    \A i, j \in 1..Len(df) : i < j => df[i].YoY >= df[j].YoY

\* C6 as stated: the shortlist is the first 10 rows of the candidates
\* sorted by 'YoY(%)' descending with ties in their input order.
C6_StableTop10 ==
    pc = "send_ranked" =>
        LET sorted == StableOrder(ep_list, 1..Len(ep_list))
        IN shortlist = SubSeq(sorted, 1, IF Len(sorted) < 10 THEN Len(sorted) ELSE 10)

\* C6 amended: the shortlist is sorted by 'YoY(%)' descending, has
\* min(10, number of candidates) rows, each a different candidate, and no
\* candidate left out has a higher 'YoY(%)' than one kept; the order among
\* candidates of equal 'YoY(%)' is not fixed.
C6_SortedTop10 ==
    pc = "send_ranked" =>
        /\ Len(shortlist) = (IF Len(ep_list) < 10 THEN Len(ep_list) ELSE 10)
        /\ Descending(shortlist)
        /\ NoRepeat(shortlist)
        /\ Range(shortlist) \subseteq Range(ep_list)
        /\ \A r \in Range(ep_list) \ Range(shortlist) :
             \A i \in 1..Len(shortlist) : r.YoY <= shortlist[i].YoY

\* C6 witness: more than 10 candidates were ranked and two rows of the
\* shortlist tie.
C6_Witness ==
    /\ pc = "send_ranked"
    /\ Len(ep_list) > 10
    /\ Len(shortlist) = 10
    /\ \E i, j \in 1..Len(shortlist) :
         i < j /\ shortlist[i].YoY = shortlist[j].YoY

\* C7: what either adapter delivers, and so what get_earnings_tickers
\* returns, holds no symbol with a "." and no symbol twice, and holds every
\* symbol without a "." of the responses that adapter parsed.
C7_Normalized ==
    /\ pc \in {"coord", "finnhub", "acquired"} =>
         /\ Normalized(yahooResult.list)
         /\ yahooResult.kind = "none" => ~YahooDelivered
         /\ yahooResult.kind = "list" =>
              \A d \in 1..Len(yresp) :
                  (/\ ~yresp[d].raise
                   /\ yresp[d].status = 200
                   /\ ~yresp[d].marker
                   /\ yresp[d].parse = "table") =>
                      \A i \in 1..Len(yresp[d].rows) :
                          ~ContainsDot(yresp[d].rows[i]) =>
                              yresp[d].rows[i] \in Range(yahooResult.list)
    /\ (pc = "acquired" /\ FinnhubCalled) =>
         /\ Normalized(finnhubResult.list)
         /\ (/\ fresp[1].key
             /\ ~fresp[1].resp.raise
             /\ fresp[1].resp.status = 200
             /\ fresp[1].resp.json = "ok") =>
                \A i \in 1..Len(fresp[1].resp.rows) :
                    ~ContainsDot(fresp[1].resp.rows[i]) =>
                        fresp[1].resp.rows[i] \in Range(finnhubResult.list)
    /\ pc \in {"acquired", "filter", "filtered"} => Normalized(tickers)

\* C7 witness: the Yahoo adapter produced the result from two dates, the
\* first with a dotted symbol, both with one same plain symbol.
C7_Witness ==
    /\ pc = "acquired"
    /\ calls = <<"yahoo">>
    /\ Len(yresp) = 2
    /\ \E i \in 1..Len(yresp[1].rows) : ContainsDot(yresp[1].rows[i])
    /\ \E i \in 1..Len(yresp[1].rows), j \in 1..Len(yresp[2].rows) :
         /\ yresp[1].rows[i] = yresp[2].rows[j]
         /\ ~ContainsDot(yresp[1].rows[i])
    /\ Len(tickers) = 2

Ended == pc \in {"done", "crashed"}

NoRankedVariant(msgs) == \A i \in 1..Len(msgs) : msgs[i].variant # "ranked"

\* C8 as stated: every run in which no candidate passes the filter, an
\* empty ticker set included, ends with the "no qualifying tickers" message
\* sent to the sink, and never the ranked list.
C8_NoneMessageSent ==
    (Ended /\ ep_list = <<>>) =>
        /\ \E i \in 1..Len(sink) : sink[i].variant = "none"
        /\ NoRankedVariant(sink)

\* C8 amended: with an empty ticker collection the run prints its console
\* line and hands nothing to send_to_discord; with a non-empty one of which
\* no candidate passes, send_to_discord is called once, with the "no
\* qualifying tickers" content, and the sink receives that content or (no
\* webhook URL, or the POST raised) nothing; never the ranked list.
C8_NoneVariantOnly ==
    /\ ep_list = <<>> =>
         /\ shortlist = <<>>
         /\ NoRankedVariant(sent)
         /\ NoRankedVariant(sink)
    /\ (Ended /\ tickers = <<>>) =>
         /\ console
         /\ ep_list = <<>>
         /\ sent = <<>>
         /\ sink = <<>>
    /\ (Ended /\ tickers # <<>> /\ ep_list = <<>>) =>
         /\ ~console
         /\ Len(sent) = 1
         /\ sent[1].variant = "none"
         /\ sink = <<>> \/ sink = sent

\* C8 witness: tickers were acquired, none passed, and the sink received
\* the "no qualifying tickers" content.
C8_Witness ==
    /\ pc = "done"
    /\ tickers # <<>>
    /\ ep_list = <<>>
    /\ Len(sink) = 1
    /\ sink[1].variant = "none"

\* C9: every calendar request of the Yahoo adapter is followed by the
\* cool-down before the next request or the return, whatever its outcome.
C9_CooldownAfterEveryGet ==
    \A i \in 1..Len(ylog) :
        ylog[i] = "get" => (i < Len(ylog) /\ ylog[i + 1] = "cooldown")

\* The symbols the response of one date contributes.
Contribution(resp) ==
    IF ~resp.raise /\ resp.status = 200 /\ ~resp.marker /\ resp.parse = "table"
    THEN { resp.rows[i] : i \in { k \in 1..Len(resp.rows) :
                                    ~ContainsDot(resp.rows[k]) } }
    ELSE {}

Contributions == UNION { Contribution(yresp[d]) : d \in 1..Len(yresp) }

\* C10 as stated: the Yahoo adapter returns None only after a request for
\* every date and no contribution from any; a failing date never keeps the
\* other dates from being requested or their tickers from being returned.
C10_NoneOnlyAfterAllDates ==
    pc = "coord" =>
        /\ Len(yresp) = NumDates
        /\ yahooResult.kind = "none" <=> Contributions = {}
        /\ Range(yahooResult.list) = Contributions

\* C10 amended: the same, unless the warm-up request raised: then the
\* adapter returns None with no date requested.
C10_NoneAfterAllDatesUnlessWarmupRaised ==
    /\ pc = "yahoo_loop" =>
         /\ ~WarmupRaised
         /\ Len(yresp) = dateIdx - 1
         /\ ytickers = Contributions
    /\ pc = "coord" =>
         /\ WarmupRaised => (yresp = <<>> /\ yahooResult.kind = "none")
         /\ ~WarmupRaised => Len(yresp) = NumDates
         /\ yahooResult.kind = "none" <=> Contributions = {}
         /\ Range(yahooResult.list) = Contributions

\* C10 witness: the first date's request raised and the tickers of the
\* second date were returned.
C10_Witness ==
    /\ pc = "coord"
    /\ Len(yresp) = 2
    /\ yresp[1].raise
    /\ yahooResult.kind = "list"
    /\ Range(yahooResult.list) = Contribution(yresp[2])

====
